---- MODULE Spec2Model ----
(***************************************************************************)
(* Experiment Notebook (experiment_notebook.py): interactive collection of *)
(* one experiment record, an append-only JSON log, and a PDF and a Word    *)
(* rendering of the record.                                                *)
(*                                                                         *)
(* A Python str is a sequence of characters; a character is a TLA+ string  *)
(* (a run of plain ASCII letters stands for one character where its inner  *)
(* structure is never looked at).  A Python value is a record tagged with  *)
(* its type in field k.  A file holds a sequence of characters.            *)
(***************************************************************************)
EXTENDS Integers, Sequences, FiniteSets, TLC

VARIABLES
    fs,       \* the working directory: path -> file content
    now,      \* the wall clock, in ticks
    proc,     \* the state of each process running log_experiment
    console,  \* get_input_list: the responses typed and what was returned
    store,    \* a caller of load_experiments / save_experiments
    render,   \* a caller of the two report generators
    audit     \* what has happened so far: an observer's notes

vars == <<fs, now, proc, console, store, render, audit>>

(***************************************************************************)
(* Characters                                                              *)
(***************************************************************************)
DQ == "\""
BSLASH == "\\"
NL == "\n"
SP == " "
\* a character outside ASCII (e-acute)
NONASCII == "U+00E9"
\* a byte that is no text in the locale's encoding (0xFF under UTF-8)
BADBYTE == "0xFF"
\* the indentation unit of json.dump(..., indent=4)
INDENT4 == "    "

Whitespace == {SP, NL, INDENT4, "\t"}
ControlChars == {NL, "\t"}
NumberAtoms == {"0", "7"}

(***************************************************************************)
(* Python values                                                           *)
(***************************************************************************)
Str(s) == [k |-> "str", v |-> s]
List(xs) == [k |-> "list", v |-> xs]
\* a dict keeps its items in insertion order: a sequence of <<key, value>>
Dict(items) == [k |-> "dict", v |-> items]
Num(a) == [k |-> "num", v |-> a]
None == [k |-> "none", v |-> <<>>]

RECURSIVE DictFind(_, _, _)
DictFind(items, key, i) ==
    IF i > Len(items) THEN 0
    ELSE IF items[i][1] = key THEN i
    ELSE DictFind(items, key, i + 1)

\* d[key] = val
DictSet(items, key, val) ==
    LET i == DictFind(items, key, 1)
    IN  IF i = 0 THEN Append(items, <<key, val>>)
        ELSE [items EXCEPT ![i] = <<key, val>>]

\* d.get(key, default)
DictGet(d, key, default) ==
    LET i == DictFind(d.v, key, 1)
    IN  IF i = 0 THEN default ELSE d.v[i][2]

(***************************************************************************)
(* json.dump(obj, file, indent=4): the text written                        *)
(***************************************************************************)
\* the encoder with the backslash left as it is
EscapeCharKeepBackslash(c) ==
    IF c = DQ THEN <<BSLASH, DQ>>
    ELSE IF c = NL THEN <<BSLASH, "n">>
    ELSE IF c = "\t" THEN <<BSLASH, "t">>
    ELSE IF c = NONASCII THEN <<BSLASH, "u00e9">>
    ELSE <<c>>

EscapeChar(c) ==
    IF c = DQ THEN <<BSLASH, DQ>>
    ELSE IF c = BSLASH THEN <<BSLASH, BSLASH>>
    ELSE IF c = NL THEN <<BSLASH, "n">>
    ELSE IF c = "\t" THEN <<BSLASH, "t">>
    ELSE IF c = NONASCII THEN <<BSLASH, "u00e9">>
    ELSE <<c>>

RECURSIVE EscapeBody(_)
EscapeBody(s) ==
    IF s = <<>> THEN <<>> ELSE EscapeChar(Head(s)) \o EscapeBody(Tail(s))

EncodeString(s) == <<DQ>> \o EscapeBody(s) \o <<DQ>>

NewlineIndent(level) == <<NL>> \o [i \in 1..level |-> INDENT4]

RECURSIVE JsonDumps(_, _)
RECURSIVE DumpItems(_, _, _)
RECURSIVE DumpPairs(_, _, _)
JsonDumps(val, level) ==
    CASE val.k = "str" -> EncodeString(val.v)
      [] val.k = "num" -> <<val.v>>
      [] val.k = "none" -> <<"null">>
      [] val.k = "list" ->
            IF Len(val.v) = 0 THEN <<"[", "]">>
            ELSE <<"[">> \o DumpItems(val.v, 1, level + 1)
                         \o NewlineIndent(level) \o <<"]">>
      [] val.k = "dict" ->
            IF Len(val.v) = 0 THEN <<"{", "}">>
            ELSE <<"{">> \o DumpPairs(val.v, 1, level + 1)
                         \o NewlineIndent(level) \o <<"}">>

DumpItems(xs, i, level) ==
    IF i > Len(xs) THEN <<>>
    ELSE (IF i > 1 THEN <<",">> ELSE <<>>)
         \o NewlineIndent(level) \o JsonDumps(xs[i], level)
         \o DumpItems(xs, i + 1, level)

DumpPairs(ps, i, level) ==
    IF i > Len(ps) THEN <<>>
    ELSE (IF i > 1 THEN <<",">> ELSE <<>>)
         \o NewlineIndent(level) \o EncodeString(ps[i][1]) \o <<":", SP>>
         \o JsonDumps(ps[i][2], level)
         \o DumpPairs(ps, i + 1, level)

(***************************************************************************)
(* json.load(file): the value parsed, or JSONDecodeError (ok = FALSE)      *)
(***************************************************************************)
ParseFail == [ok |-> FALSE, val |-> None, pos |-> 0]
ParseOk(val, pos) == [ok |-> TRUE, val |-> val, pos |-> pos]

RECURSIVE SkipWs(_, _)
SkipWs(t, i) ==
    IF i <= Len(t) /\ t[i] \in Whitespace THEN SkipWs(t, i + 1) ELSE i

Unescape(c) ==
    CASE c = DQ -> DQ
      [] c = BSLASH -> BSLASH
      [] c = "n" -> NL
      [] c = "t" -> "\t"
      [] c = "u00e9" -> NONASCII
      [] OTHER -> ""

\* the body of a string, from the character after its opening quote
RECURSIVE ScanString(_, _, _)
ScanString(t, i, acc) ==
    IF i > Len(t) THEN ParseFail
    ELSE IF t[i] = DQ THEN ParseOk(Str(acc), i + 1)
    ELSE IF t[i] = BSLASH THEN
        IF i + 1 > Len(t) \/ Unescape(t[i + 1]) = "" THEN ParseFail
        ELSE ScanString(t, i + 2, Append(acc, Unescape(t[i + 1])))
    ELSE IF t[i] \in ControlChars THEN ParseFail
    ELSE ScanString(t, i + 1, Append(acc, t[i]))

RECURSIVE ParseValue(_, _)
RECURSIVE ArrayItems(_, _, _)
RECURSIVE ObjectItems(_, _, _)
ParseValue(t, i) ==
    IF i > Len(t) THEN ParseFail
    ELSE IF t[i] = DQ THEN ScanString(t, i + 1, <<>>)
    ELSE IF t[i] = "[" THEN
        LET j == SkipWs(t, i + 1)
        IN  IF j <= Len(t) /\ t[j] = "]" THEN ParseOk(List(<<>>), j + 1)
            ELSE ArrayItems(t, j, <<>>)
    ELSE IF t[i] = "{" THEN
        LET j == SkipWs(t, i + 1)
        IN  IF j <= Len(t) /\ t[j] = "}" THEN ParseOk(Dict(<<>>), j + 1)
            ELSE ObjectItems(t, j, <<>>)
    ELSE IF t[i] = "null" THEN ParseOk(None, i + 1)
    ELSE IF t[i] \in NumberAtoms THEN ParseOk(Num(t[i]), i + 1)
    ELSE ParseFail

ArrayItems(t, i, acc) ==
    LET r == ParseValue(t, i)
        j == SkipWs(t, r.pos)
    IN  IF ~r.ok \/ j > Len(t) THEN ParseFail
        ELSE IF t[j] = "]" THEN ParseOk(List(Append(acc, r.val)), j + 1)
        ELSE IF t[j] = "," THEN
            ArrayItems(t, SkipWs(t, j + 1), Append(acc, r.val))
        ELSE ParseFail

ObjectItems(t, i, acc) ==
    IF i > Len(t) \/ t[i] # DQ THEN ParseFail
    ELSE
        LET key == ScanString(t, i + 1, <<>>)
            c == SkipWs(t, key.pos)
        IN  IF ~key.ok \/ c > Len(t) \/ t[c] # ":" THEN ParseFail
            ELSE
                LET r == ParseValue(t, SkipWs(t, c + 1))
                    j == SkipWs(t, r.pos)
                    items == DictSet(acc, key.val.v, r.val)
                IN  IF ~r.ok \/ j > Len(t) THEN ParseFail
                    ELSE IF t[j] = "}" THEN ParseOk(Dict(items), j + 1)
                    ELSE IF t[j] = "," THEN
                        ObjectItems(t, SkipWs(t, j + 1), items)
                    ELSE ParseFail

JsonLoads(t) ==
    LET r == ParseValue(t, SkipWs(t, 1))
    IN  IF ~r.ok THEN ParseFail
        ELSE IF SkipWs(t, r.pos) # Len(t) + 1 THEN ParseFail
        ELSE r

(***************************************************************************)
(* Files                                                                   *)
(***************************************************************************)
\* os.path.exists(filepath)
Exists(dir, filepath) == filepath \in DOMAIN dir

\* file.read() of a file opened in text mode: the text, or UnicodeDecodeError
ReadText(bytes) ==
    IF \E i \in 1..Len(bytes) : bytes[i] = BADBYTE
    THEN [ok |-> FALSE, text |-> <<>>]
    ELSE [ok |-> TRUE, text |-> bytes]

\* open(filepath, "w") and what is written to it
WriteFile(dir, filepath, content) ==
    [p \in DOMAIN dir \cup {filepath} |->
        IF p = filepath THEN content ELSE dir[p]]

(***************************************************************************)
(* Log Store                                                               *)
(***************************************************************************)
Returned(val) == [raised |-> "", value |-> val]
Raised(exc) == [raised |-> exc, value |-> None]

load_experiments(dir, filepath) ==
    IF Exists(dir, filepath) THEN
        LET rd == ReadText(dir[filepath])
            data == JsonLoads(rd.text)
        IN  IF ~rd.ok THEN Raised("UnicodeDecodeError")
            ELSE IF data.ok /\ data.val.k = "list" THEN Returned(data.val)
            ELSE Returned(List(<<>>))
    ELSE Returned(List(<<>>))

save_experiments(dir, experiments, filepath) ==
    WriteFile(dir, filepath, JsonDumps(experiments, 0))

(***************************************************************************)
(* The clock: datetime.datetime.now(), strftime and str                    *)
(***************************************************************************)
\* clock ticks per second: the clock's resolution below one second
TicksPerSecond == 2

Digit(d) == <<"0", "1", "2", "3", "4", "5", "6", "7", "8", "9">>[d + 1]
Pad2(n) == <<Digit((n \div 10) % 10), Digit(n % 10)>>

WholeSecond(t) == t \div TicksPerSecond
HourOf(t) == (WholeSecond(t) \div 3600) % 24
MinuteOf(t) == (WholeSecond(t) \div 60) % 60
SecondOf(t) == WholeSecond(t) % 60

\* a token that also carries the fraction of the second
StrftimeWithFraction(t) ==
    <<"2", "0", "2", "6", "1", "1", "0", "3">>
        \o Pad2(HourOf(t)) \o Pad2(MinuteOf(t)) \o Pad2(SecondOf(t))
        \o Pad2(t % TicksPerSecond)

\* now.strftime('%Y%m%d%H%M%S') on the day the clock starts: 14 digits
Strftime(t) ==
    <<"2", "0", "2", "6", "1", "1", "0", "3">>
        \o Pad2(HourOf(t)) \o Pad2(MinuteOf(t)) \o Pad2(SecondOf(t))

\* str(now): the fraction of the second is printed unless it is zero
StrDatetime(t) ==
    <<"2026-11-03", SP>> \o Pad2(HourOf(t)) \o <<":">> \o Pad2(MinuteOf(t))
        \o <<":">> \o Pad2(SecondOf(t))
        \o (IF t % TicksPerSecond = 0 THEN <<>>
            ELSE <<".">> \o Pad2(t % TicksPerSecond))

(***************************************************************************)
(* Input Collector                                                         *)
(***************************************************************************)
\* input(prompt): the next line typed, or EOFError at the end of the input
InputAt(stdin, pos) ==
    IF pos > Len(stdin) THEN [eof |-> TRUE, line |-> <<>>, pos |-> pos]
    ELSE [eof |-> FALSE, line |-> stdin[pos], pos |-> pos + 1]

\* the amount appended without the space and the brackets
FormatDetailBare(item, detail) == item \o detail

\* f"{item} ({detail})"
FormatDetail(item, detail) == item \o <<SP, "(">> \o detail \o <<")">>

LoopStart(pos) == [status |-> "running", items |-> <<>>, pos |-> pos]

\* one pass through the body of get_input_list's while loop
InputIteration(stdin, detail_prompt, s) ==
    LET a == InputAt(stdin, s.pos)
        b == InputAt(stdin, a.pos)
    IN  IF a.eof THEN [s EXCEPT !.status = "EOFError"]
        ELSE IF a.line = <<>> THEN
            [s EXCEPT !.status = "returned", !.pos = a.pos]
        ELSE IF detail_prompt THEN
            IF b.eof THEN [s EXCEPT !.status = "EOFError", !.pos = a.pos]
            ELSE [s EXCEPT !.items = Append(@, FormatDetail(a.line, b.line)),
                           !.pos = b.pos]
        ELSE [s EXCEPT !.items = Append(@, a.line), !.pos = a.pos]

RECURSIVE InputLoop(_, _, _)
InputLoop(stdin, detail_prompt, s) ==
    IF s.status # "running" THEN s
    ELSE InputLoop(stdin, detail_prompt, InputIteration(stdin, detail_prompt, s))

get_input_list(stdin, pos, detail_prompt) ==
    InputLoop(stdin, detail_prompt, LoopStart(pos))

StrList(items) == List([i \in 1..Len(items) |-> Str(items[i])])

\* the dict literal built by get_experiment_details
ExperimentDict(title, experiment_id, date, experimenter, project, chemicals, equipment, procedure, observations, results) ==
    Dict(<< << <<"title">>, Str(title) >>,
            << <<"experiment_id">>, Str(experiment_id) >>,
            << <<"date">>, Str(date) >>,
            << <<"experimenter">>, Str(experimenter) >>,
            << <<"project">>, Str(project) >>,
            << <<"chemicals">>, StrList(chemicals) >>,
            << <<"equipment">>, StrList(equipment) >>,
            << <<"procedure">>, StrList(procedure) >>,
            << <<"observations">>, Str(observations) >>,
            << <<"results">>, Str(results) >> >>)

\* get_experiment_details with the clock reading t and the lines stdin:
\* the pair (experiment, timestamp), or EOFError
get_experiment_details(t, stdin) ==
    LET timestamp == Strftime(t)
        title == InputAt(stdin, 1)
        experimenter == InputAt(stdin, title.pos)
        project == InputAt(stdin, experimenter.pos)
        chemicals == get_input_list(stdin, project.pos, TRUE)
        equipment == get_input_list(stdin, chemicals.pos, FALSE)
        procedure == get_input_list(stdin, equipment.pos, FALSE)
        observations == InputAt(stdin, procedure.pos)
        results == InputAt(stdin, observations.pos)
    IN  IF \/ title.eof \/ experimenter.eof \/ project.eof
           \/ chemicals.status # "returned"
           \/ equipment.status # "returned"
           \/ procedure.status # "returned"
           \/ observations.eof \/ results.eof
        THEN [raised |-> "EOFError", experiment |-> None, timestamp |-> <<>>]
        ELSE [raised |-> "",
              experiment |->
                  ExperimentDict(title.line, <<"EXP-">> \o timestamp,
                                 StrDatetime(t), experimenter.line,
                                 project.line, chemicals.items,
                                 equipment.items, procedure.items,
                                 observations.line, results.line),
              timestamp |-> timestamp]

(***************************************************************************)
(* Report Renderer.  A document is the sequence of what was added to it.   *)
(***************************************************************************)
RECURSIVE DecStr(_)
\* str(i) of a positive integer, as in f"{i}. "
DecStr(n) ==
    IF n < 10 THEN <<Digit(n)>> ELSE DecStr(n \div 10) \o <<Digit(n % 10)>>

\* experiment[key] of a dict that has the key
Subscript(d, key) == DictGet(d, <<key>>, None)

\* the list "fields" of both generators: (label, experiment[key]) pairs
IdentityFields(experiment) ==
    << <<"Title", Subscript(experiment, "title")>>,
       <<"Experiment ID", Subscript(experiment, "experiment_id")>>,
       <<"Date", Subscript(experiment, "date")>>,
       <<"Experimenter", Subscript(experiment, "experimenter")>>,
       <<"Project", Subscript(experiment, "project")>> >>

col_width_field == 50
col_width_value == 130
row_height == 10

\* pdf.cell(w, row_height, txt, border=1, fill=fill, ln=ln)
PdfCell(w, txt, fill, ln) ==
    [op |-> "cell", w |-> w, h |-> row_height, txt |-> txt, fill |-> fill,
     ln |-> ln]
\* pdf.multi_cell(0, row_height, txt, border=1)
PdfMultiCell(txt) ==
    [op |-> "multi_cell", w |-> 0, h |-> row_height, txt |-> txt,
     fill |-> FALSE, ln |-> TRUE]
\* pdf.ln(h)
PdfLn(h) ==
    [op |-> "ln", w |-> 0, h |-> h, txt |-> <<>>, fill |-> FALSE, ln |-> TRUE]

\* add_list_table with the section always numbered from zero
pdf_add_list_table_from_zero(title, items, numbered) ==
    IF Len(items.v) = 0 THEN <<>>
    ELSE <<PdfCell(0, <<title>>, TRUE, TRUE)>>
         \o [i \in 1..Len(items.v) |->
                PdfCell(0, IF numbered
                           THEN DecStr(i - 1) \o <<".", SP>> \o items.v[i].v
                           ELSE <<"-", SP>> \o items.v[i].v,
                        FALSE, TRUE)]
         \o <<PdfLn(5)>>

\* generate_pdf_report.add_list_table
pdf_add_list_table(title, items, numbered) ==
    IF Len(items.v) = 0 THEN <<>>
    ELSE <<PdfCell(0, <<title>>, TRUE, TRUE)>>
         \o [i \in 1..Len(items.v) |->
                PdfCell(0, IF numbered
                           THEN DecStr(i) \o <<".", SP>> \o items.v[i].v
                           ELSE <<"-", SP>> \o items.v[i].v,
                        FALSE, TRUE)]
         \o <<PdfLn(5)>>

\* generate_pdf_report.add_text_section
pdf_add_text_section(title, text) ==
    IF Len(text.v) = 0 THEN <<>>
    ELSE <<PdfCell(0, <<title>>, TRUE, TRUE), PdfMultiCell(text.v), PdfLn(5)>>

PdfIdentityRows(fields) ==
    IF Len(fields) = 0 THEN <<>>
    ELSE LET Row(i) == <<PdfCell(col_width_field, <<fields[i][1]>>, FALSE, FALSE),
                         PdfCell(col_width_value, fields[i][2].v, FALSE, TRUE)>>
             F[i \in 0..Len(fields)] ==
                 IF i = 0 THEN <<>> ELSE F[i - 1] \o Row(i)
         IN  F[Len(fields)]

\* the report named after the clock at the time it is written
generate_pdf_report_by_clock(experiment, timestamp) ==
    [filename |-> <<"experiment_report_">> \o Strftime(now) \o <<".pdf">>,
     doc |->
        <<PdfCell(col_width_field, <<"Field">>, TRUE, FALSE),
          PdfCell(col_width_value, <<"Value">>, TRUE, TRUE)>>
        \o PdfIdentityRows(IdentityFields(experiment))
        \o <<PdfLn(10)>>
        \o pdf_add_list_table("Chemicals Used",
               DictGet(experiment, <<"chemicals">>, List(<<>>)), FALSE)
        \o pdf_add_list_table("Equipment Used",
               DictGet(experiment, <<"equipment">>, List(<<>>)), FALSE)
        \o pdf_add_list_table("Procedure",
               DictGet(experiment, <<"procedure">>, List(<<>>)), TRUE)
        \o pdf_add_text_section("Observations",
               DictGet(experiment, <<"observations">>, Str(<<>>)))
        \o pdf_add_text_section("Results",
               DictGet(experiment, <<"results">>, Str(<<>>)))]

generate_pdf_report(experiment, timestamp) ==
    [filename |-> <<"experiment_report_">> \o timestamp \o <<".pdf">>,
     doc |->
        <<PdfCell(col_width_field, <<"Field">>, TRUE, FALSE),
          PdfCell(col_width_value, <<"Value">>, TRUE, TRUE)>>
        \o PdfIdentityRows(IdentityFields(experiment))
        \o <<PdfLn(10)>>
        \o pdf_add_list_table("Chemicals Used",
               DictGet(experiment, <<"chemicals">>, List(<<>>)), FALSE)
        \o pdf_add_list_table("Equipment Used",
               DictGet(experiment, <<"equipment">>, List(<<>>)), FALSE)
        \o pdf_add_list_table("Procedure",
               DictGet(experiment, <<"procedure">>, List(<<>>)), TRUE)
        \o pdf_add_text_section("Observations",
               DictGet(experiment, <<"observations">>, Str(<<>>)))
        \o pdf_add_text_section("Results",
               DictGet(experiment, <<"results">>, Str(<<>>)))]

\* doc.add_heading(txt, level)
WordHeading(txt, level) ==
    [op |-> "heading", txt |-> txt, level |-> level, style |-> "",
     rows |-> <<>>]
\* doc.add_paragraph(txt, style)
WordParagraph(txt, style) ==
    [op |-> "paragraph", txt |-> txt, level |-> 0, style |-> style,
     rows |-> <<>>]
\* the table of doc.add_table(rows=1, cols=2) with its style and its rows
WordTable(style, rows) ==
    [op |-> "table", txt |-> <<>>, level |-> 0, style |-> style,
     rows |-> rows]

\* generate_word_report.add_list_section
word_add_list_section(title, items, numbered) ==
    IF Len(items.v) = 0 THEN <<>>
    ELSE <<WordHeading(<<title>>, 2)>>
         \o [i \in 1..Len(items.v) |->
                IF numbered
                THEN WordParagraph(DecStr(i) \o <<".", SP>> \o items.v[i].v,
                                   "List Number")
                ELSE WordParagraph(<<"-", SP>> \o items.v[i].v,
                                   "List Bullet")]

\* add_text_section with the heading added whatever the text
word_add_text_section_always(title, text) ==
    <<WordHeading(<<title>>, 2), WordParagraph(text.v, "")>>

\* generate_word_report.add_text_section
word_add_text_section(title, text) ==
    IF Len(text.v) = 0 THEN <<>>
    ELSE <<WordHeading(<<title>>, 2), WordParagraph(text.v, "")>>

WordIdentityRows(fields) ==
    [i \in 1..Len(fields) |-> << <<fields[i][1]>>, fields[i][2].v >>]

generate_word_report(experiment, timestamp) ==
    [filename |-> <<"experiment_report_">> \o timestamp \o <<".docx">>,
     doc |->
        <<WordHeading(<<"Experiment Report">>, 1),
          WordTable("LightShading-Accent1",
                    << << <<"Field">>, <<"Value">> >> >>
                    \o WordIdentityRows(IdentityFields(experiment))),
          WordParagraph(<<>>, "")>>
        \o word_add_list_section("Chemicals Used",
               DictGet(experiment, <<"chemicals">>, List(<<>>)), FALSE)
        \o word_add_list_section("Equipment Used",
               DictGet(experiment, <<"equipment">>, List(<<>>)), FALSE)
        \o word_add_list_section("Procedure",
               DictGet(experiment, <<"procedure">>, List(<<>>)), TRUE)
        \o word_add_text_section("Observations",
               DictGet(experiment, <<"observations">>, Str(<<>>)))
        \o word_add_text_section("Results",
               DictGet(experiment, <<"results">>, Str(<<>>)))]

(***************************************************************************)
(* Values of the variables a specification does not use                    *)
(***************************************************************************)
EmptyDir == [p \in {} |-> <<>>]
IdleProc == <<>>
IdleConsole == [stdin |-> <<>>, detail_prompt |-> FALSE, loop |-> LoopStart(1)]
IdleStore == [kind |-> "idle"]
IdleRender == [kind |-> "idle"]
IdleAudit == [kind |-> "idle"]

(***************************************************************************)
(* SpecStore: a caller of the Log Store.  It holds a list of records R,    *)
(* saves what it holds and loads, in any order, on two paths; the log path *)
(* starts missing or with content written by someone else.                 *)
(***************************************************************************)
\* the default filepath of load_experiments and save_experiments
LogPath == <<"experiment_log.json">>
OtherPath == <<"copy.json">>
StorePaths == {LogPath, OtherPath}

\* the longest list of records the caller starts with
MaxLogLen == 2

SampleId == <<"EXP-">> \o Strftime(0)
SampleRecords ==
    << ExperimentDict(<<>>, SampleId, StrDatetime(0), <<>>, <<>>,
                      <<>>, <<>>, <<>>, <<>>, <<>>),
       ExperimentDict(<<"Synthesis", SP, "A">>, SampleId, StrDatetime(1),
                      <<"Jane">>, <<"P1">>,
                      << <<"NaCl", SP, "(", "5g", ")">>,
                         <<"H2O", SP, "(", "100ml", ")">> >>,
                      << <<"Beaker">> >>, << <<"Mix">>, <<"Heat">> >>,
                      <<"clear", SP, "solution">>, <<"yield", SP, "90%">>),
       ExperimentDict(<<DQ, "a", DQ, BSLASH, "n">>, SampleId, StrDatetime(0),
                      <<BSLASH>>, <<BSLASH, DQ>>,
                      << <<"[", DQ, ",", "]">> >>, <<>>,
                      << <<NONASCII>>, <<BSLASH, "u00e9">> >>,
                      <<"line1", NL, "line2", "\t">>, <<"null">>),
       ExperimentDict(<<"{", "}">>, SampleId, StrDatetime(3), <<":">>,
                      <<INDENT4>>, <<>>, << <<>> >>, <<>>, <<NL>>, <<"7">>) >>

RECURSIVE SeqsUpTo(_, _)
SeqsUpTo(S, n) ==
    IF n = 0 THEN {<<>>}
    ELSE LET shorter == SeqsUpTo(S, n - 1)
         IN  shorter \cup {Append(s, x) : s \in shorter, x \in S}

SampleLogs ==
    {List([i \in 1..Len(ix) |-> SampleRecords[ix[i]]]) :
        ix \in SeqsUpTo(1..Len(SampleRecords), MaxLogLen)}

\* what someone else may have left in the log file.  kind says what the
\* content is (read off the JSON grammar, not computed by the parser):
\* "invalid" no JSON text, "nonarray" a JSON value that is no array,
\* "array" a JSON array, whose value is then given.
ForeignContents ==
    << [data |-> <<>>, kind |-> "invalid", value |-> None],
       [data |-> <<"not", SP, "json">>, kind |-> "invalid", value |-> None],
       [data |-> <<"[", "7", ",", "]">>, kind |-> "invalid", value |-> None],
       [data |-> <<"[", "]", "]">>, kind |-> "invalid", value |-> None],
       [data |-> <<"[", DQ, "a", "]">>, kind |-> "invalid", value |-> None],
       [data |-> <<"[", DQ, BSLASH, "x", DQ, "]">>, kind |-> "invalid",
        value |-> None],
       [data |-> <<"[", "{", DQ, "a", DQ, "7", "}", "]">>, kind |-> "invalid",
        value |-> None],
       [data |-> <<BADBYTE>>, kind |-> "invalid", value |-> None],
       [data |-> <<"[", DQ, "a", BADBYTE, DQ, "]">>, kind |-> "invalid",
        value |-> None],
       [data |-> <<"{", "}">>, kind |-> "nonarray", value |-> None],
       [data |-> <<"{", DQ, "title", DQ, ":", SP, DQ, "a", DQ, "}", NL>>,
        kind |-> "nonarray", value |-> None],
       [data |-> <<DQ, "not", SP, "json", DQ>>, kind |-> "nonarray",
        value |-> None],
       [data |-> <<"null">>, kind |-> "nonarray", value |-> None],
       [data |-> <<SP, "7", NL>>, kind |-> "nonarray", value |-> None],
       [data |-> <<"[", "]">>, kind |-> "array", value |-> List(<<>>)],
       [data |-> <<NL, "[", SP, "]", NL>>, kind |-> "array",
        value |-> List(<<>>)],
       [data |-> <<"[", "7", ",", "null", ",", SP, "[", "]", "]">>,
        kind |-> "array",
        value |-> List(<<Num("7"), None, List(<<>>)>>)],
       [data |-> <<"[", "{", DQ, "title", DQ, ":", DQ, "a", BSLASH, "n",
                   NONASCII, DQ, ",", SP, DQ, "chemicals", DQ, SP, ":", "[",
                   DQ, BSLASH, DQ, DQ, "]", "}", ",", NL, "{", "}", "]">>,
        kind |-> "array",
        value |-> List(<< Dict(<< << <<"title">>,
                                     Str(<<"a", NL, NONASCII>>) >>,
                                  << <<"chemicals">>,
                                     List(<<Str(<<DQ>>)>>) >> >>),
                          Dict(<<>>) >>)] >>

\* where the content of a path comes from
OriginMissing == [kind |-> "missing", idx |-> 0, val |-> None]
OriginForeign(i) == [kind |-> "foreign", idx |-> i, val |-> None]
OriginSaved(val) == [kind |-> "saved", idx |-> 0, val |-> val]

InitStore ==
    /\ \E R \in SampleLogs, c \in 0..Len(ForeignContents) :
        /\ c = 0 \/ Len(R.v) < MaxLogLen
        /\ fs = IF c = 0 THEN EmptyDir
                ELSE [p \in {LogPath} |-> ForeignContents[c].data]
        /\ store = [kind |-> "store", R |-> R, mem |-> R,
                    ret |-> Returned(None), last |-> "none", path |-> LogPath,
                    before |-> fs,
                    origin |-> [p \in StorePaths |->
                                  IF p = LogPath /\ c > 0 THEN OriginForeign(c)
                                  ELSE OriginMissing],
                    chain |-> 0]
    /\ now = 0
    /\ audit = IdleAudit
    /\ proc = IdleProc
    /\ console = IdleConsole
    /\ render = IdleRender

\* the caller's place in  save(R, p); load(p); save(it, p2); load(p2)
ChainNext(chain, op, path) ==
    IF \/ chain = 0 /\ op = "save" /\ path = LogPath
       \/ chain = 1 /\ op = "load" /\ path = LogPath
       \/ chain = 2 /\ op = "save" /\ path = OtherPath
       \/ chain = 3 /\ op = "load" /\ path = OtherPath
    THEN chain + 1
    ELSE 5

\* experiments = load_experiments(p)
StoreLoad(p) ==
    LET r == load_experiments(fs, p)
    IN  /\ store' = [store EXCEPT
                        !.ret = r,
                        !.mem = IF r.raised = "" THEN r.value ELSE @,
                        !.last = "load",
                        !.path = p,
                        !.before = fs,
                        !.chain = ChainNext(@, "load", p)]
        /\ UNCHANGED <<audit, fs, now, proc, console, render>>

\* save_experiments(experiments, p)
StoreSave(p) ==
    /\ fs' = save_experiments(fs, store.mem, p)
    /\ store' = [store EXCEPT
                    !.last = "save",
                    !.path = p,
                    !.before = fs,
                    !.origin[p] = OriginSaved(store.mem),
                    !.chain = ChainNext(@, "save", p)]
    /\ UNCHANGED <<audit, now, proc, console, render>>

NextStore == \E p \in StorePaths : StoreLoad(p) \/ StoreSave(p)

SpecStore == InitStore /\ [][NextStore]_vars

(***************************************************************************)
(* Orchestrator: log_experiment, run by one process again and again (Spec) *)
(* or by two processes at once (SpecConcurrent) in one working directory.  *)
(***************************************************************************)
Procs == {1, 2}

\* how many times one process runs the script
MaxRuns == 2
\* the last tick of the clock
MaxTick == 2

\* log_experiment with the reports generated before the log is saved
log_experiment_reports_first ==
    <<"collect", "load", "append", "pdf", "word", "save">>

\* the body of log_experiment, statement by statement
log_experiment == <<"collect", "load", "append", "save", "pdf", "word">>

\* what the user types in one run: every prompt answered, or the input
\* ending at the amount of the first chemical
MainTapes ==
    { << <<"Synthesis", SP, "A">>, <<"Jane">>, <<"P1">>,
         <<"NaCl">>, <<"5g">>, <<>>,
         <<"Beaker">>, <<>>,
         <<"Mix">>, <<"Heat">>, <<>>,
         <<"clear", SP, "solution">>, <<"yield", SP, "90%">> >>,
      << <<"C">>, <<"Jane">>, <<"P1">>, <<"NaCl">> >> }

\* the log file before the first run: missing (0), or a content of
\* ForeignContents: no JSON, an undecodable byte, an array
MainInitialLogs == {0, 2, 8, 18}

IdleRun ==
    [status |-> "idle", ip |-> 0, runs |-> 0, trace |-> <<>>, error |-> "",
     experiment |-> None, timestamp |-> <<>>, experiments |-> None,
     loaded |-> None, cur |-> 0]

InitMain ==
    /\ \E c \in MainInitialLogs :
        /\ fs = IF c = 0 THEN EmptyDir
                ELSE [p \in {LogPath} |-> ForeignContents[c].data]
        /\ audit = [kind |-> "main", initial |-> c, created |-> <<>>,
                    events |-> <<>>, writes |-> <<>>]
    /\ now = 0
    /\ proc = [p \in Procs |-> IdleRun]
    /\ console = IdleConsole
    /\ store = IdleStore
    /\ render = IdleRender

\* the statement process p executes next
NextStmt(p) ==
    IF proc[p].status = "running" THEN log_experiment[proc[p].ip] ELSE "none"

\* the statement of process p completed
Advance(s, stmt) ==
    [s EXCEPT !.ip = @ + 1,
              !.trace = Append(@, stmt),
              !.status = IF s.ip = Len(log_experiment) THEN "done"
                         ELSE "running"]

\* the statement of process p raised: the run ends there
Fail(s, stmt, exc) ==
    [s EXCEPT !.trace = Append(@, stmt), !.status = "failed", !.error = exc]

\* time passes
Tick ==
    /\ now < MaxTick
    /\ now' = now + 1
    /\ UNCHANGED <<fs, proc, console, store, render, audit>>

\* the script is started: main() calls log_experiment()
main(p, limit) ==
    /\ proc[p].status # "running"
    /\ proc[p].runs < limit
    /\ proc' = [proc EXCEPT ![p] = [IdleRun EXCEPT !.status = "running",
                                                   !.ip = 1,
                                                   !.runs = proc[p].runs + 1]]
    /\ UNCHANGED <<fs, now, console, store, render, audit>>

\* experiment, timestamp = get_experiment_details()
Collect(p, tapes) ==
    /\ NextStmt(p) = "collect"
    /\ \E stdin \in tapes :
        LET r == get_experiment_details(now, stdin)
        IN  IF r.raised # ""
            THEN /\ proc' = [proc EXCEPT ![p] = Fail(@, "collect", r.raised)]
                 /\ UNCHANGED audit
            ELSE /\ proc' = [proc EXCEPT ![p] =
                                [Advance(@, "collect") EXCEPT
                                    !.experiment = r.experiment,
                                    !.timestamp = r.timestamp,
                                    !.cur = Len(audit.created) + 1]]
                 /\ audit' = [audit EXCEPT !.created =
                                Append(@, [p |-> p, at |-> now,
                                           experiment |-> r.experiment,
                                           timestamp |-> r.timestamp])]
    /\ UNCHANGED <<fs, now, console, store, render>>

\* experiments = load_experiments()
Load(p) ==
    /\ NextStmt(p) = "load"
    /\ LET r == load_experiments(fs, LogPath)
       IN  IF r.raised # ""
           THEN /\ proc' = [proc EXCEPT ![p] = Fail(@, "load", r.raised)]
                /\ UNCHANGED audit
           ELSE /\ proc' = [proc EXCEPT ![p] =
                               [Advance(@, "load") EXCEPT
                                   !.experiments = r.value,
                                   !.loaded = r.value]]
                /\ audit' = [audit EXCEPT !.events =
                               Append(@, [p |-> p, op |-> "load",
                                          run |-> proc[p].cur])]
    /\ UNCHANGED <<fs, now, console, store, render>>

\* the new element put in front of the list
list_insert_first(lst, item) == List(<<item>> \o lst.v)

\* lst.append(item)
list_append(lst, item) == List(Append(lst.v, item))

\* experiments.append(experiment)
AppendRecord(p) ==
    /\ NextStmt(p) = "append"
    /\ proc' = [proc EXCEPT ![p] =
                   [Advance(@, "append") EXCEPT
                       !.experiments = list_append(proc[p].experiments,
                                                   proc[p].experiment)]]
    /\ UNCHANGED <<fs, now, console, store, render, audit>>

\* a save that reads the log again and adds the record to what it finds
SaveRereading(p) ==
    /\ NextStmt(p) = "save"
    /\ fs' = save_experiments(fs,
                 list_append(load_experiments(fs, LogPath).value,
                             proc[p].experiment),
                 LogPath)
    /\ proc' = [proc EXCEPT ![p] = Advance(@, "save")]
    /\ audit' = [audit EXCEPT !.events =
                    Append(@, [p |-> p, op |-> "save", run |-> proc[p].cur])]
    /\ UNCHANGED <<now, console, store, render>>

\* save_experiments(experiments)
Save(p) ==
    /\ NextStmt(p) = "save"
    /\ fs' = save_experiments(fs, proc[p].experiments, LogPath)
    /\ proc' = [proc EXCEPT ![p] = Advance(@, "save")]
    /\ audit' = [audit EXCEPT !.events =
                    Append(@, [p |-> p, op |-> "save", run |-> proc[p].cur])]
    /\ UNCHANGED <<now, console, store, render>>

\* generate_pdf_report(experiment, timestamp); the library may raise
PdfStep(p) ==
    /\ NextStmt(p) = "pdf"
    /\ \E ok \in BOOLEAN :
        LET r == generate_pdf_report(proc[p].experiment, proc[p].timestamp)
        IN  IF ok
            THEN /\ fs' = WriteFile(fs, r.filename, r.doc)
                 /\ proc' = [proc EXCEPT ![p] = Advance(@, "pdf")]
                 /\ audit' = [audit EXCEPT !.writes =
                                Append(@, [name |-> r.filename,
                                           run |-> proc[p].cur])]
            ELSE /\ proc' = [proc EXCEPT ![p] = Fail(@, "pdf", "RenderError")]
                 /\ UNCHANGED <<fs, audit>>
    /\ UNCHANGED <<now, console, store, render>>

\* generate_word_report(experiment, timestamp); the library may raise
WordStep(p) ==
    /\ NextStmt(p) = "word"
    /\ \E ok \in BOOLEAN :
        LET r == generate_word_report(proc[p].experiment, proc[p].timestamp)
        IN  IF ok
            THEN /\ fs' = WriteFile(fs, r.filename, r.doc)
                 /\ proc' = [proc EXCEPT ![p] = Advance(@, "word")]
                 /\ audit' = [audit EXCEPT !.writes =
                                Append(@, [name |-> r.filename,
                                           run |-> proc[p].cur])]
            ELSE /\ proc' = [proc EXCEPT ![p] = Fail(@, "word", "RenderError")]
                 /\ UNCHANGED <<fs, audit>>
    /\ UNCHANGED <<now, console, store, render>>

Next ==
    \/ Tick
    \/ main(1, MaxRuns)
    \/ Collect(1, MainTapes)
    \/ Load(1)
    \/ AppendRecord(1)
    \/ Save(1)
    \/ PdfStep(1)
    \/ WordStep(1)

Spec == InitMain /\ [][Next]_vars

\* what each of the two users types
TapeOf(p) ==
    IF p = 1
    THEN << <<"Synthesis", SP, "A">>, <<"Jane">>, <<"P1">>,
            <<"NaCl">>, <<"5g">>, <<>>, <<>>, <<"Mix">>, <<>>,
            <<"clear">>, <<>> >>
    ELSE << <<"B">>, <<>>, <<>>, <<>>, <<>>, <<>>, <<>>, <<>> >>

NextConcurrent ==
    \/ Tick
    \/ \E p \in Procs :
        \/ main(p, 1)
        \/ Collect(p, {TapeOf(p)})
        \/ Load(p)
        \/ AppendRecord(p)
        \/ Save(p)
        \/ PdfStep(p)
        \/ WordStep(p)

SpecConcurrent == InitMain /\ [][NextConcurrent]_vars

(***************************************************************************)
(* Properties of the Log Store                                             *)
(***************************************************************************)
StoreOrigin == store.origin[store.path]

\* what the grammar says load must return for content left by someone else
ForeignExpected(i) ==
    IF ForeignContents[i].kind = "array" THEN ForeignContents[i].value
    ELSE List(<<>>)

\* C1: a load never raises and never changes a file; it returns the empty
\* list for a missing file, for content that is no JSON text and for a JSON
\* value that is no array, and the array's own elements for a JSON array.
C1_LoadNeverRaises ==
    store.last = "load" =>
        /\ fs = store.before
        /\ store.ret.raised = ""
        /\ StoreOrigin.kind = "missing" => store.ret.value = List(<<>>)
        /\ StoreOrigin.kind = "foreign" =>
                store.ret.value = ForeignExpected(StoreOrigin.idx)

\* C1 holds of every content that is text in the locale's encoding.
C1_LoadOfText ==
    store.last = "load" =>
        /\ fs = store.before
        /\ StoreOrigin.kind = "missing" => store.ret = Returned(List(<<>>))
        /\ StoreOrigin.kind = "foreign" =>
                IF ReadText(ForeignContents[StoreOrigin.idx].data).ok
                THEN store.ret = Returned(ForeignExpected(StoreOrigin.idx))
                ELSE store.ret = Raised("UnicodeDecodeError")

\* C2: a load of a path returns the list last saved to it, record for
\* record and in order; and after save(R, p); load(p); save(loaded, p2);
\* load(p2) the caller holds R again.
C2_RoundTrip ==
    /\ store.last = "load" /\ StoreOrigin.kind = "saved" =>
            store.ret = Returned(StoreOrigin.val)
    /\ store.chain \in {2, 4} => store.ret = Returned(store.R)
    /\ store.chain \in {1, 3} => store.origin[store.path].val = store.R

\* the round trip was made through both paths with two records, one of
\* them full of characters the encoder escapes
C2_Witness ==
    /\ store.chain = 4
    /\ store.R = List(<<SampleRecords[3], SampleRecords[2]>>)

(***************************************************************************)
(* SpecInput: get_input_list run on the lines a user types.  The input may *)
(* end (EOF) before an empty line is typed.                                *)
(***************************************************************************)
\* the longest input typed
MaxTape == 5

Responses == {<<>>, <<"NaCl">>, <<"5g">>}

InitInput ==
    /\ \E stdin \in SeqsUpTo(Responses, MaxTape), detail_prompt \in BOOLEAN :
            console = [stdin |-> stdin, detail_prompt |-> detail_prompt,
                       loop |-> LoopStart(1)]
    /\ fs = EmptyDir
    /\ now = 0
    /\ audit = IdleAudit
    /\ proc = IdleProc
    /\ store = IdleStore
    /\ render = IdleRender

\* the while loop of get_input_list, one pass at a time
InputStep ==
    /\ console.loop.status = "running"
    /\ console' = [console EXCEPT
                      !.loop = InputIteration(console.stdin,
                                              console.detail_prompt, @)]
    /\ UNCHANGED <<audit, fs, now, proc, store, render>>

NextInput == InputStep

SpecInput == InitInput /\ [][NextInput]_vars

\* C5: get_input_list returns at the first empty item response; the list
\* returned has one element per item response before it, in entry order:
\* item, space, bracketed amount with a detail prompt (the amount may be
\* empty), the item itself without one.  It returns whenever an item
\* response is empty.
C5_InputList ==
    LET r == console.stdin
        items == console.loop.items
        n == Len(items)
        step == IF console.detail_prompt THEN 2 ELSE 1
        ItemAt(i) == r[step * (i - 1) + 1]
    IN  /\ console.loop.status = "returned" =>
            /\ step * n + 1 <= Len(r)
            /\ ItemAt(n + 1) = <<>>
            /\ console.loop.pos = step * n + 2
            /\ \A i \in 1..n :
                /\ ItemAt(i) # <<>>
                /\ items[i] =
                      IF console.detail_prompt
                      THEN ItemAt(i) \o <<" ", "(">> \o r[2 * i] \o <<")">>
                      ELSE ItemAt(i)
        /\ console.loop.status = "EOFError" =>
            \A j \in 1..Len(r) : (j - 1) % step = 0 => r[j] # <<>>

\* two chemicals were entered, the second with an empty amount
C5_Witness ==
    /\ console.loop.status = "returned"
    /\ console.detail_prompt
    /\ console.loop.items = << <<"NaCl", " ", "(", "5g", ")">>,
                               <<"5g", " ", "(", ")">> >>

(***************************************************************************)
(* SpecRender: both generators run, in either order, on one record.        *)
(***************************************************************************)
\* the longest list of chemicals; a procedure may have one step more
MaxItems == 2

RenderItems == {<<"b">>, <<"a">>}
RenderTexts == {<<>>, <<"clear", NL, "solution">>}

InitRender ==
    /\ \E chemicals \in SeqsUpTo(RenderItems, MaxItems),
          equipment \in {<<>>, << <<"Beaker">> >>},
          procedure \in SeqsUpTo(RenderItems, MaxItems + 1),
          observations \in RenderTexts,
          results \in RenderTexts :
            render = [kind |-> "render",
                      fields |-> [title |-> <<"Synthesis", SP, "A">>,
                                  experiment_id |-> <<"EXP-">> \o Strftime(0),
                                  date |-> StrDatetime(0),
                                  experimenter |-> <<"Jane">>,
                                  project |-> <<"P1">>,
                                  chemicals |-> chemicals,
                                  equipment |-> equipment,
                                  procedure |-> procedure,
                                  observations |-> observations,
                                  results |-> results],
                      timestamp |-> Strftime(0),
                      pdfDone |-> FALSE, pdf |-> <<>>,
                      wordDone |-> FALSE, word |-> <<>>]
    /\ fs = EmptyDir
    /\ now = 0
    /\ audit = IdleAudit
    /\ proc = IdleProc
    /\ console = IdleConsole
    /\ store = IdleStore

RenderExperiment ==
    LET f == render.fields
    IN  ExperimentDict(f.title, f.experiment_id, f.date, f.experimenter,
                       f.project, f.chemicals, f.equipment, f.procedure,
                       f.observations, f.results)

RenderPdf ==
    /\ ~render.pdfDone
    /\ render' = [render EXCEPT
                     !.pdfDone = TRUE,
                     !.pdf = generate_pdf_report(RenderExperiment,
                                                 render.timestamp).doc]
    /\ UNCHANGED <<audit, fs, now, proc, console, store>>

RenderWord ==
    /\ ~render.wordDone
    /\ render' = [render EXCEPT
                     !.wordDone = TRUE,
                     !.word = generate_word_report(RenderExperiment,
                                                   render.timestamp).doc]
    /\ UNCHANGED <<audit, fs, now, proc, console, store>>

NextRender == RenderPdf \/ RenderWord

SpecRender == InitRender /\ [][NextRender]_vars

(***************************************************************************)
(* Properties of the Report Renderer                                       *)
(***************************************************************************)
\* what a reader sees as section headers: in the PDF the shaded cells
\* spanning the page, in the Word document the level-2 headings
IsPdfHeader(e) == e.op = "cell" /\ e.fill /\ e.w = 0
IsWordHeader(e) == e.op = "heading" /\ e.level = 2
Texts(elems) == [i \in 1..Len(elems) |-> elems[i].txt]
PdfSectionTitles(doc) == Texts(SelectSeq(doc, IsPdfHeader))
WordSectionTitles(doc) == Texts(SelectSeq(doc, IsWordHeader))

NonEmptyPair(p) == Len(p[2]) > 0
\* the sections the record calls for, read off its fields
ExpectedSections ==
    LET f == render.fields
        all == << <<"Chemicals Used", f.chemicals>>,
                  <<"Equipment Used", f.equipment>>,
                  <<"Procedure", f.procedure>>,
                  <<"Observations", f.observations>>,
                  <<"Results", f.results>> >>
        kept == SelectSeq(all, NonEmptyPair)
    IN  [i \in 1..Len(kept) |-> <<kept[i][1]>>]

ExpectedIdentity ==
    LET f == render.fields
    IN  << << <<"Title">>, f.title >>,
           << <<"Experiment ID">>, f.experiment_id >>,
           << <<"Date">>, f.date >>,
           << <<"Experimenter">>, f.experimenter >>,
           << <<"Project">>, f.project >> >>

AllEmpty ==
    LET f == render.fields
    IN  /\ f.chemicals = <<>> /\ f.equipment = <<>> /\ f.procedure = <<>>
        /\ f.observations = <<>> /\ f.results = <<>>

\* C6: both documents start with the identity section (header row, then
\* Title, Experiment ID, Date, Experimenter, Project) and go on with the
\* sections Chemicals Used, Equipment Used, Procedure, Observations, Results
\* in that order, each present exactly when its field is not empty; every
\* header is followed by content; a record with all five empty yields the
\* identity section alone.
C6_SameSections ==
    /\ render.pdfDone =>
        LET doc == render.pdf
        IN  /\ PdfSectionTitles(doc) = ExpectedSections
            /\ Len(doc) >= 13
            /\ doc[1].txt = <<"Field">> /\ doc[1].fill
            /\ doc[2].txt = <<"Value">> /\ doc[2].fill
            /\ \A i \in 1..5 :
                /\ doc[2 * i + 1].txt = ExpectedIdentity[i][1]
                /\ doc[2 * i + 2].txt = ExpectedIdentity[i][2]
            /\ \A i \in 1..Len(doc) :
                IsPdfHeader(doc[i]) =>
                    /\ i > 13
                    /\ i < Len(doc)
                    /\ doc[i + 1].op \in {"cell", "multi_cell"}
                    /\ ~doc[i + 1].fill
            /\ AllEmpty => Len(doc) = 13
    /\ render.wordDone =>
        LET doc == render.word
        IN  /\ WordSectionTitles(doc) = ExpectedSections
            /\ Len(doc) >= 3
            /\ doc[2].op = "table"
            /\ doc[2].rows = << << <<"Field">>, <<"Value">> >> >>
                                \o ExpectedIdentity
            /\ \A i \in 1..Len(doc) :
                IsWordHeader(doc[i]) =>
                    /\ i > 3
                    /\ i < Len(doc)
                    /\ doc[i + 1].op = "paragraph"
            /\ AllEmpty => Len(doc) = 3
    /\ render.pdfDone /\ render.wordDone =>
        PdfSectionTitles(render.pdf) = WordSectionTitles(render.word)

\* both documents were made of a record with chemicals, a procedure and
\* results, and without equipment or observations
C6_Witness ==
    /\ render.pdfDone /\ render.wordDone
    /\ PdfSectionTitles(render.pdf)
         = << <<"Chemicals Used">>, <<"Procedure">>, <<"Results">> >>
    /\ WordSectionTitles(render.word)
         = << <<"Chemicals Used">>, <<"Procedure">>, <<"Results">> >>

\* both documents were made of a record with nothing but its identity
C6_WitnessEmpty ==
    /\ render.pdfDone /\ render.wordDone /\ AllEmpty

\* the position of the header of a section in a document
PdfHeaderAt(doc, title) ==
    CHOOSE i \in 1..Len(doc) : IsPdfHeader(doc[i]) /\ doc[i].txt = <<title>>
WordHeaderAt(doc, title) ==
    CHOOSE i \in 1..Len(doc) : IsWordHeader(doc[i]) /\ doc[i].txt = <<title>>

RowNumbers == <<"1", "2", "3", "4", "5", "6", "7", "8", "9">>
ExpectedRow(items, i, numbered) ==
    IF numbered THEN <<RowNumbers[i], ".", " ">> \o items[i]
    ELSE <<"-", " ">> \o items[i]

PdfRowsAre(doc, title, items, numbered) ==
    Len(items) > 0 =>
        LET at == PdfHeaderAt(doc, title)
        IN  /\ at + Len(items) + 1 <= Len(doc)
            /\ \A i \in 1..Len(items) :
                /\ doc[at + i].op = "cell"
                /\ ~doc[at + i].fill
                /\ doc[at + i].txt = ExpectedRow(items, i, numbered)
            /\ doc[at + Len(items) + 1].op = "ln"

WordRowsAre(doc, title, items, numbered) ==
    Len(items) > 0 =>
        LET at == WordHeaderAt(doc, title)
            after == at + Len(items) + 1
        IN  /\ at + Len(items) <= Len(doc)
            /\ \A i \in 1..Len(items) :
                /\ doc[at + i].op = "paragraph"
                /\ doc[at + i].style =
                       IF numbered THEN "List Number" ELSE "List Bullet"
                /\ doc[at + i].txt = ExpectedRow(items, i, numbered)
            /\ after <= Len(doc) => doc[after].op = "heading"

\* C7: in both documents a list section that is not empty has one row per
\* element, in the order of the list, duplicates kept: "- " before each
\* chemical and each piece of equipment, "1. ", "2. ", "3. ", ... before
\* the procedure steps.
C7_ListRows ==
    LET f == render.fields
    IN  /\ render.pdfDone =>
            /\ PdfRowsAre(render.pdf, "Chemicals Used", f.chemicals, FALSE)
            /\ PdfRowsAre(render.pdf, "Equipment Used", f.equipment, FALSE)
            /\ PdfRowsAre(render.pdf, "Procedure", f.procedure, TRUE)
        /\ render.wordDone =>
            /\ WordRowsAre(render.word, "Chemicals Used", f.chemicals, FALSE)
            /\ WordRowsAre(render.word, "Equipment Used", f.equipment, FALSE)
            /\ WordRowsAre(render.word, "Procedure", f.procedure, TRUE)

\* both documents were made of a record with three procedure steps that
\* are neither sorted nor distinct, and two chemicals out of order
C7_Witness ==
    /\ render.pdfDone /\ render.wordDone
    /\ render.fields.procedure = << <<"b">>, <<"a">>, <<"b">> >>
    /\ render.fields.chemicals = << <<"b">>, <<"a">> >>
    /\ render.pdf[PdfHeaderAt(render.pdf, "Procedure") + 3].txt
         = <<"3", ".", " ", "b">>
    /\ render.word[WordHeaderAt(render.word, "Procedure") + 3].txt
         = <<"3", ".", " ", "b">>

(***************************************************************************)
(* Properties of the Orchestrator                                          *)
(***************************************************************************)
Last(q) == q[Len(q)]
IsPrefix(a, b) == Len(a) <= Len(b) /\ \A i \in 1..Len(a) : a[i] = b[i]
IsSave(e) == e.op = "save"
IsLoad(e) == e.op = "load"

\* what a reader of the log file finds in it now
LogNow == load_experiments(fs, LogPath)

\* what the log held before the first run, as the grammar reads it
InitialExpected ==
    IF audit.initial = 0 THEN List(<<>>) ELSE ForeignExpected(audit.initial)

\* the records of the runs that saved, in the order of their saves
SavedRecords ==
    LET saves == SelectSeq(audit.events, IsSave)
    IN  [i \in 1..Len(saves) |-> audit.created[saves[i].run].experiment]

HasSaved(p) == \E i \in 1..Len(proc[p].trace) : proc[p].trace[i] = "save"

\* C3: once a run has saved, the log holds what it held before the first
\* run (nothing, if it was missing or malformed), then the record of every
\* run that saved, once each and in the order of the runs; and right after
\* a run's save it holds what that run loaded, then that run's record.
C3_AppendOnly ==
    /\ Len(SavedRecords) > 0 =>
        LogNow = Returned(List(InitialExpected.v \o SavedRecords))
    /\ HasSaved(1) =>
        /\ LogNow.value.v = Append(proc[1].loaded.v, proc[1].experiment)
        /\ proc[1].loaded.v
             = InitialExpected.v \o SubSeq(SavedRecords, 1,
                                           Len(SavedRecords) - 1)

\* two runs saved to a log that held an array of two elements
C3_Witness ==
    /\ audit.initial = 18
    /\ Len(SavedRecords) = 2
    /\ SavedRecords[1] # SavedRecords[2]
    /\ Len(LogNow.value.v) = 4

\* one run saved to a log that held no JSON
C3_WitnessMalformed ==
    /\ audit.initial = 2
    /\ Len(SavedRecords) = 1
    /\ LogNow.value.v = <<proc[1].experiment>>

WritesOf(run) ==
    LET ByRun(w) == w.run = run IN SelectSeq(audit.writes, ByRun)

\* C4: the statements of a run execute in the order collect, load, append,
\* save, pdf, word; no report is written by a run that has not saved; a run
\* that fails in a report step leaves its record as the last one of the log;
\* a run that fails in the PDF step writes no report at all.
C4_Order ==
    LET s == proc[1]
    IN  /\ IsPrefix(s.trace,
                    <<"collect", "load", "append", "save", "pdf", "word">>)
        /\ \A i \in 1..Len(audit.writes) :
            \E j \in 1..Len(audit.events) :
                /\ audit.events[j].op = "save"
                /\ audit.events[j].run = audit.writes[i].run
        /\ (s.status = "failed" /\ s.error = "RenderError") =>
            /\ Last(s.trace) \in {"pdf", "word"}
            /\ LogNow.raised = ""
            /\ Len(LogNow.value.v) > 0
            /\ Last(LogNow.value.v) = audit.created[s.cur].experiment
        /\ (s.status = "failed" /\ Len(s.trace) > 0 /\ Last(s.trace) = "pdf")
            => WritesOf(s.cur) = <<>>

\* the PDF step of a run failed on a log that was missing before
C4_Witness ==
    /\ proc[1].status = "failed"
    /\ proc[1].trace = <<"collect", "load", "append", "save", "pdf">>
    /\ LogNow.value.v = <<proc[1].experiment>>
    /\ DOMAIN fs = {LogPath}

Digits == {"0", "1", "2", "3", "4", "5", "6", "7", "8", "9"}
PdfName(token) == <<"experiment_report_">> \o token \o <<".pdf">>
DocxName(token) == <<"experiment_report_">> \o token \o <<".docx">>

\* C8: the token of a run is 14 digits fixed when the record is created;
\* the record's experiment_id is "EXP-" and the token; the run's reports
\* are experiment_report_<token>.pdf and .docx whatever the clock says when
\* they are written; the record the process holds and the record in the
\* log keep the experiment_id and the date they were created with.
C8_OneToken ==
    /\ \A r \in 1..Len(audit.created) :
        LET c == audit.created[r]
        IN  /\ Len(c.timestamp) = 14
            /\ \A i \in 1..14 : c.timestamp[i] \in Digits
            /\ DictGet(c.experiment, <<"experiment_id">>, None)
                 = Str(<<"EXP-">> \o c.timestamp)
            /\ IsPrefix([i \in 1..Len(WritesOf(r)) |-> WritesOf(r)[i].name],
                        <<PdfName(c.timestamp), DocxName(c.timestamp)>>)
    /\ \A path \in DOMAIN fs \ {LogPath} :
        \E i \in 1..Len(audit.writes) : audit.writes[i].name = path
    /\ proc[1].cur > 0 =>
        /\ proc[1].timestamp = audit.created[proc[1].cur].timestamp
        /\ proc[1].experiment = audit.created[proc[1].cur].experiment
    /\ \A i \in 1..Len(SavedRecords) :
        LET stored == LogNow.value.v[Len(InitialExpected.v) + i]
        IN  /\ DictGet(stored, <<"experiment_id">>, None)
                 = DictGet(SavedRecords[i], <<"experiment_id">>, None)
            /\ DictGet(stored, <<"date">>, None)
                 = DictGet(SavedRecords[i], <<"date">>, None)

\* a run created in one second wrote both reports in the next
C8_Witness ==
    /\ proc[1].status = "done"
    /\ WholeSecond(audit.created[proc[1].cur].at) # WholeSecond(now)
    /\ Len(WritesOf(proc[1].cur)) = 2
    /\ PdfName(proc[1].timestamp) \in DOMAIN fs
    /\ DocxName(proc[1].timestamp) \in DOMAIN fs

\* the last write of each report file
LastWriteOf(name) ==
    LET Named(w) == w.name = name IN Last(SelectSeq(audit.writes, Named))

\* C10: two runs whose records are created in the same second get the same
\* experiment_id and the same report names; both records stay in the log;
\* each report file holds what the last run to write it rendered.
C10_SameSecond ==
    /\ \A i, j \in 1..Len(audit.created) :
        (i < j /\ WholeSecond(audit.created[i].at)
                    = WholeSecond(audit.created[j].at)) =>
            /\ DictGet(audit.created[i].experiment, <<"experiment_id">>, None)
                 = DictGet(audit.created[j].experiment, <<"experiment_id">>,
                           None)
            /\ PdfName(audit.created[i].timestamp)
                 = PdfName(audit.created[j].timestamp)
            /\ DocxName(audit.created[i].timestamp)
                 = DocxName(audit.created[j].timestamp)
    /\ \A i \in 1..Len(audit.writes) :
        LET w == LastWriteOf(audit.writes[i].name)
            c == audit.created[w.run]
        IN  fs[w.name] \in
                {generate_pdf_report(c.experiment, c.timestamp).doc,
                 generate_word_report(c.experiment, c.timestamp).doc}
    /\ Len(SavedRecords) > 0 =>
        LogNow.value.v = InitialExpected.v \o SavedRecords

\* two complete runs in one second: two different records with one
\* experiment_id in the log, four writes, two report files, both holding
\* the second run's rendering
C10_Witness ==
    /\ Len(audit.created) = 2
    /\ Len(audit.writes) = 4
    /\ audit.initial = 0
    /\ WholeSecond(audit.created[1].at) = WholeSecond(audit.created[2].at)
    /\ Len(LogNow.value.v) = 2
    /\ LogNow.value.v[1] # LogNow.value.v[2]
    /\ DictGet(LogNow.value.v[1], <<"experiment_id">>, None)
         = DictGet(LogNow.value.v[2], <<"experiment_id">>, None)
    /\ DOMAIN fs = {LogPath, PdfName(audit.created[2].timestamp),
                    DocxName(audit.created[2].timestamp)}
    /\ fs[PdfName(audit.created[2].timestamp)]
         = generate_pdf_report(audit.created[2].experiment,
                               audit.created[2].timestamp).doc
    /\ fs[PdfName(audit.created[2].timestamp)]
         # generate_pdf_report(audit.created[1].experiment,
                               audit.created[1].timestamp).doc

\* the places in the history of the loads and the saves of process p
EventsOf(p, op) ==
    {i \in 1..Len(audit.events) :
        audit.events[i].p = p /\ audit.events[i].op = op}

\* both processes loaded before either saved, and both have saved
BothLoadedFirst ==
    /\ \A p \in Procs : EventsOf(p, "load") # {} /\ EventsOf(p, "save") # {}
    /\ \A p, q \in Procs :
        \A i \in EventsOf(p, "load"), j \in EventsOf(q, "save") : i < j

\* C9: when both processes load the log before either saves it, the log
\* holds after both saves what it held at first and the record of the
\* process that saved last; the record of the other is not in it.  After
\* any save the log is what the saving process loaded and its own record.
C9_LostUpdate ==
    /\ Len(audit.events) > 0 /\ Last(audit.events).op = "save" =>
        LET p == Last(audit.events).p
        IN  LogNow.value.v = Append(proc[p].loaded.v, proc[p].experiment)
    /\ BothLoadedFirst =>
        LET p == Last(SelectSeq(audit.events, IsSave)).p
            q == CHOOSE q \in Procs : q # p
        IN  /\ LogNow.value.v = Append(InitialExpected.v, proc[p].experiment)
            /\ \A i \in 1..Len(LogNow.value.v) :
                LogNow.value.v[i] # proc[q].experiment

\* both processes loaded the missing log, then both saved: one record only
C9_Witness ==
    /\ BothLoadedFirst
    /\ audit.initial = 0
    /\ proc[1].experiment # proc[2].experiment
    /\ Len(LogNow.value.v) = 1

====
